---------------------------- MODULE Spec2Model ----------------------------
(***************************************************************************)
(* Task-management API (FastAPI + SQLAlchemy + Cognito).                   *)
(*                                                                         *)
(* State: the users and tasks tables, the wall clock, the uuid source and  *)
(* the requests in flight.  Every route handler is cut at its database     *)
(* statements and outbound calls: requests served by different worker      *)
(* processes interleave at exactly those points.                           *)
(*                                                                         *)
(* Optional values (Python None) are sets with at most one element.        *)
(***************************************************************************)
EXTENDS Integers, Sequences, FiniteSets, TLC

\* ------------------------------------------------------------------ bounds
\* The clock's last tick, and the number of tasks ever created.
MaxTime == 1
MaxTasks == 2

\* Requests in flight at the same time.
Reqs == {"r1", "r2"}

\* ------------------------------------------------------- identity provider
\* The identities the provider knows.  sub-1 and sub-2 share an email,
\* sub-1 and sub-3 share a username; sub-2 and sub-3 share nothing.
Identities ==
    { [sub |-> "sub-1", given_name |-> "Alice", family_name |-> "A",
       username |-> "alice", email |-> "a@example.com"],
      [sub |-> "sub-2", given_name |-> "Bob", family_name |-> "B",
       username |-> "bob", email |-> "a@example.com"],
      [sub |-> "sub-3", given_name |-> "Carol", family_name |-> "C",
       username |-> "alice", email |-> "c@example.com"] }

Usernames == {i.username : i \in Identities}

\* The access token the provider issues for an identity.
AccessToken(i) == <<"access", i.sub>>

\* The token endpoint's answers: 200 with a token, or another status.
TokenResponses ==
    { [status_code |-> 200, access_token |-> {AccessToken(i)}, expires_in |-> {100}]
        : i \in Identities }
    \cup { [status_code |-> 400, access_token |-> {}, expires_in |-> {}] }

\* An auth_with_code that does not look at the status.
auth_with_any_status(response) ==
    { [token |-> response.access_token, expires_in |-> response.expires_in] }

\* auth_with_code: the response of the single POST to the token endpoint,
\* mapped to {token, expires_in} on 200 and to None otherwise.
auth_with_code(response) ==
    IF response.status_code = 200
    THEN { [token |-> response.access_token, expires_in |-> response.expires_in] }
    ELSE {}

\* Cognito's get_user answer for an access token, in the attribute order
\* the handler relies on.
GetUserResponse(i, code) ==
    [ResponseMetadata |-> [HTTPStatusCode |-> code],
     UserAttributes |-> << [Name |-> "email", Value |-> i.email],
                           [Name |-> "email_verified", Value |-> "true"],
                           [Name |-> "family_name", Value |-> i.family_name],
                           [Name |-> "given_name", Value |-> i.given_name],
                           [Name |-> "sub", Value |-> i.sub] >>,
     Username |-> i.username]

IdentityOf(token) == CHOOSE i \in Identities : AccessToken(i) = token

\* user_info_with_token: the response when its status is 200, else None.
user_info_with_token(response) ==
    IF response.ResponseMetadata.HTTPStatusCode = 200 THEN {response} ELSE {}

\* global_sign_out's outcomes: an HTTP status, or a raised exception.
SignOutOutcomes == { [raised |-> FALSE, HTTPStatusCode |-> 200],
                     [raised |-> FALSE, HTTPStatusCode |-> 400],
                     [raised |-> TRUE, HTTPStatusCode |-> 0] }

\* A logout_with_token that takes any response for a success.
SignedOutUnlessRaised(outcome) == ~outcome.raised

\* logout_with_token: True on 200, False otherwise and on any exception.
logout_with_token(outcome) ==
    IF outcome.raised THEN FALSE
    ELSE IF outcome.HTTPStatusCode = 200 THEN TRUE ELSE FALSE

\* -------------------------------------------------------------- user store
\* The UserCreate built from the provider's answer, by attribute position
\* (Python index k is position k + 1).
UserCreate(user_info) ==
    [id |-> user_info.UserAttributes[5].Value,
     given_name |-> user_info.UserAttributes[4].Value,
     family_name |-> user_info.UserAttributes[3].Value,
     username |-> user_info.Username,
     email |-> user_info.UserAttributes[1].Value]

\* updated_at defaults to a value computed once, when the module is loaded.
ProcessStart == 0

UserModel(user) ==
    [id |-> user.id, given_name |-> user.given_name,
     family_name |-> user.family_name, username |-> user.username,
     email |-> user.email, updated_at |-> ProcessStart]

\* A users table with a primary key and no unique index.
PrimaryKeyOnly(table, row) == \A u \in table : u.id # row.id

\* The users table's constraints: primary key id, unique username, unique email.
UserConstraintsOk(table, row) ==
    \A u \in table : /\ u.id # row.id
                     /\ u.username # row.username
                     /\ u.email # row.email

\* A create_user that treats a constraint violation as a conflict to
\* recover from.
create_user_or_ignore(table, user) ==
    [raised |-> FALSE,
     users |-> IF UserConstraintsOk(table, UserModel(user))
               THEN table \cup {UserModel(user)} ELSE table]

\* create_user: add and commit; a constraint violation raises and changes nothing.
create_user(table, user) ==
    IF UserConstraintsOk(table, UserModel(user))
    THEN [raised |-> FALSE, users |-> table \cup {UserModel(user)}]
    ELSE [raised |-> TRUE, users |-> table]

\* A lookup that ignores the username.
AnyUser(table, user_username) == table

\* A lookup that compares the username with the email column.
UsernameAsEmail(table, user_username) == {u \in table : u.email = user_username}

get_user_by_username(table, user_username) ==
    {u \in table : u.username = user_username}

\* An email lookup that finds nothing.
NoUserByEmail(table, user_email) == {}

get_user_by_email(table, user_email) ==
    {u \in table : u.email = user_email}

\* -------------------------------------------------------------- task store
\* Request bodies.  A deadline is absent or a datetime: its second t, its
\* microsecond, and whether it is timezone-aware (parsed from a string that
\* carries a UTC offset).
Deadlines ==
    {{}} \cup {{[t |-> n, microsecond |-> 0, aware |-> FALSE]} : n \in 0..MaxTime}
         \cup {{[t |-> MaxTime, microsecond |-> 600000, aware |-> FALSE]}}
         \cup {{[t |-> MaxTime, microsecond |-> 0, aware |-> TRUE]}}

TaskCreate ==
    { [title |-> b[1], description |-> b[2], priority |-> b[3], deadline |-> d]
        : b \in {<<"title-1", "description-1", 1>>,
                 <<"title-2", "description-2", 2>>},
          d \in Deadlines }

TaskUpdate ==
    { [title |-> b[1], description |-> b[2], status |-> b[3], priority |-> b[4],
       deadline |-> d]
        : b \in {<<"title-2", "description-2", "done", 2>>,
                 <<"title-1", "description-2", "done", 1>>},
          d \in Deadlines }

\* The bodies the requests of the model carry: every deadline, the other
\* fields alternating between the two values of each.
Even(deadline) ==
    \A d \in deadline : d.t % 2 = 0 /\ d.microsecond = 0 /\ ~d.aware

CreateBodies ==
    {b \in TaskCreate : b.title = (IF Even(b.deadline) THEN "title-1" ELSE "title-2")}

UpdateBodies ==
    {b \in TaskUpdate : b.title = (IF Even(b.deadline) THEN "title-2" ELSE "title-1")}

\* `deadline < datetime.now()`, the clock read on a whole second: comparing
\* an aware datetime with the naive now raises TypeError; an absent deadline
\* is not compared at all.
DeadlineCheck(deadline, clock) ==
    IF deadline = {} THEN "ok"
    ELSE LET d == CHOOSE x \in deadline : TRUE
         IN  IF d.aware THEN "TypeError"
             ELSE IF d.t < clock THEN "ValueError"
             ELSE "ok"

\* The value the DateTime column gives back for a deadline that passed the
\* check: on MySQL, the database of tests/crud, a DATETIME keeps whole
\* seconds and rounds the fraction.
DeadlineValue(deadline) ==
    {d.t + (IF d.microsecond >= 500000 THEN 1 ELSE 0) : d \in deadline}

\* A task model whose status column defaults to 'done'.
TaskModelDone(task, user_id, id, clock) ==
    [id |-> id, title |-> task.title, description |-> task.description,
     category |-> "General", status |-> "done", priority |-> task.priority,
     deadline |-> DeadlineValue(task.deadline), created_at |-> clock,
     user_id |-> user_id]

\* TaskModel(**task.model_dump(), user_id=user_id) with the column defaults
\* applied at flush: uuid4 id, category, status, created_at.
TaskModel(task, user_id, id, clock) ==
    [id |-> id, title |-> task.title, description |-> task.description,
     category |-> "General", status |-> "todo", priority |-> task.priority,
     deadline |-> DeadlineValue(task.deadline), created_at |-> clock,
     user_id |-> user_id]

\* The tasks table's constraints: primary key id, foreign key user_id.
TaskConstraintsOk(table, usertable, row) ==
    /\ \A t \in table : t.id # row.id
    /\ \E u \in usertable : u.id = row.user_id

\* A create_task that drops the owner, on a tasks table without the foreign
\* key.
create_task_unowned(table, usertable, task, user_id, id, clock) ==
    LET check == DeadlineCheck(task.deadline, clock)
        row == TaskModel(task, "", id, clock)
    IN  IF check # "ok"
        THEN [raised |-> check, tasks |-> table, result |-> {}]
        ELSE [raised |-> "", tasks |-> table \cup {row}, result |-> {row}]

\* create_task: the deadline check, then add, commit and refresh.
create_task(table, usertable, task, user_id, id, clock) ==
    LET check == DeadlineCheck(task.deadline, clock)
        row == TaskModel(task, user_id, id, clock)
    IN  IF check # "ok"
        THEN [raised |-> check, tasks |-> table, result |-> {}]
        ELSE IF ~TaskConstraintsOk(table, usertable, row)
        THEN [raised |-> "IntegrityError", tasks |-> table, result |-> {}]
        ELSE [raised |-> "", tasks |-> table \cup {row}, result |-> {row}]

\* A lookup that ignores the id.
AnyTask(table, task_id) == table

get_task_by_id(table, task_id) == {t \in table : t.id = task_id}

\* The orders a set of rows can be returned in under ORDER BY created_at.
OrderedBy(rows) ==
    { s \in [1..Cardinality(rows) -> rows] :
        /\ \A i, j \in DOMAIN s : i # j => s[i] # s[j]
        /\ \A i, j \in DOMAIN s : i < j => s[i].created_at <= s[j].created_at }

\* A listing that does not filter on the owner.
EveryTask(table, user_id) == OrderedBy(table)

\* get_tasks_by_user_id: filter on user_id, ordered by created_at.
get_tasks_by_user_id(table, user_id) ==
    OrderedBy({t \in table : t.user_id = user_id})

\* A delete that removes nothing.
KeepTask(table, task_id) == table

\* delete_task_by_id: nothing when no row has the id, else delete and commit.
delete_task_by_id(table, task_id) ==
    IF get_task_by_id(table, task_id) = {} THEN table
    ELSE {t \in table : t.id # task_id}

\* An update_task that assigns the payload's deadline also when it is None.
AssignedAlways(loaded, task) ==
    [title |-> task.title, description |-> task.description,
     status |-> task.status, priority |-> task.priority,
     deadline |-> DeadlineValue(task.deadline),
     fraction |-> \E d \in task.deadline : d.microsecond # 0]

\* The values update_task assigns to the row the session holds; the
\* deadline is assigned only when the payload has one, and then differs
\* from the loaded value also when it has a fraction of a second.
Assigned(loaded, task) ==
    [title |-> task.title, description |-> task.description,
     status |-> task.status, priority |-> task.priority,
     deadline |-> IF task.deadline = {} THEN loaded.deadline
                  ELSE DeadlineValue(task.deadline),
     fraction |-> \E d \in task.deadline : d.microsecond # 0]

\* The columns an UPDATE writes: the attributes whose assigned value differs
\* from the value the session loaded.

Merge(current, loaded, new) ==
    [current EXCEPT
        !.title = IF new.title # loaded.title THEN new.title ELSE @,
        !.description = IF new.description # loaded.description
                        THEN new.description ELSE @,
        !.status = IF new.status # loaded.status THEN new.status ELSE @,
        !.priority = IF new.priority # loaded.priority THEN new.priority ELSE @,
        !.deadline = IF new.deadline # loaded.deadline \/ new.fraction
                     THEN new.deadline ELSE @]

\* update_task: query the row, assign the four fields, check and assign the
\* deadline when the payload has one, commit and refresh.  `session` is the
\* row as this session already holds it (a row loaded earlier is not
\* reloaded by the query), or empty.
update_task(table, session, task_id, task, clock) ==
    LET found == get_task_by_id(table, task_id)
    IN  IF found = {}
        THEN [raised |-> "AttributeError", tasks |-> table, result |-> {}]
        ELSE LET current == CHOOSE t \in found : TRUE
                 loaded == IF session = {} THEN current
                           ELSE CHOOSE t \in session : TRUE
                 check == DeadlineCheck(task.deadline, clock)
                 row == Merge(current, loaded, Assigned(loaded, task))
             IN  IF check # "ok"
                 THEN [raised |-> check, tasks |-> table, result |-> {}]
                 ELSE [raised |-> "", tasks |-> (table \ {current}) \cup {row},
                       result |-> {row}]

\* The fields of a task row a response carries.
TaskResponse(row) ==
    [id |-> row.id, title |-> row.title, description |-> row.description,
     status |-> row.status, priority |-> row.priority,
     deadline |-> row.deadline, created_at |-> row.created_at]

\* ---------------------------------------------------------- authorization
\* The routes and the ones declared with Depends(auth).
Routes == {"signin", "me", "logout", "create_new_task", "get_tasks_by_user",
           "delete_task_by_id_route", "update_task_route"}

\* A router whose DELETE route is declared without Depends(auth).
ProtectedButDelete(route) ==
    route \in {"me", "logout", "create_new_task", "get_tasks_by_user",
               "update_task_route"}

Protected(route) ==
    route \in {"me", "logout", "create_new_task", "get_tasks_by_user",
               "delete_task_by_id_route", "update_task_route"}

\* The Authorization header of a request: absent, not of the form
\* "Bearer <token>", or a bearer token.  A token is described by what the
\* verifier will find: whether its key id matches a cached key, whether its
\* signature verifies, whether its temporal claims are valid.
Tokens ==
    { [kid |-> TRUE, sig |-> TRUE, fresh |-> TRUE, username |-> u] : u \in Usernames }
    \cup { [kid |-> k, sig |-> s, fresh |-> f, username |-> "alice"]
             : k \in BOOLEAN, s \in BOOLEAN, f \in BOOLEAN }

Headers ==
    { [kind |-> k, token |-> {}] : k \in {"absent", "malformed"} }
    \cup { [kind |-> "bearer", token |-> {t}] : t \in Tokens }

\* A verifier that checks the temporal claims before the signature.
VerifyExpiryFirst(t) ==
    IF ~t.kid THEN "NoMatchingKey"
    ELSE IF ~t.fresh THEN "Expired"
    ELSE IF ~t.sig THEN "InvalidSignature"
    ELSE "ok"

\* Token Verifier: the first failing check decides.
VerifyToken(t) ==
    IF ~t.kid THEN "NoMatchingKey"
    ELSE IF ~t.sig THEN "InvalidSignature"
    ELSE IF ~t.fresh THEN "Expired"
    ELSE "ok"

\* Request Authorization Middleware: Unauthenticated -> TokenPresent ->
\* Verified | Rejected.  `verifier` counts the verifier's invocations,
\* `username` is the verified claim set and `error` the verifier's error.
Authorize(header) ==
    IF header.kind # "bearer"
    THEN [state |-> "Rejected", verifier |-> 0, username |-> {}, error |-> {}]
    ELSE LET t == CHOOSE x \in header.token : TRUE
         IN  IF VerifyToken(t) = "ok"
             THEN [state |-> "Verified", verifier |-> 1, username |-> {t.username},
                   error |-> {}]
             ELSE [state |-> "Rejected", verifier |-> 1, username |-> {},
                   error |-> {VerifyToken(t)}]

\* -------------------------------------------------------------- responses
Detail(text) == [text |-> text, task_id |-> {}]

TaskNotFound(task_id) ==
    [text |-> "Task with id {task_id} not found", task_id |-> {task_id}]

HTTPException(status_code, detail) ==
    [status_code |-> status_code, detail |-> detail, content |-> {}]

Response(status_code, content) ==
    [status_code |-> status_code, detail |-> Detail(""), content |-> {content}]

\* The detail each handler's `except Exception` branch answers with.
InternalError(route) ==
    HTTPException(500,
      Detail(CASE route = "signin" ->
                    "An error occurred during sign-in. Please try again later."
               [] route = "me" ->
                    "An error occurred while retrieving the user information. Please try again later."
               [] route = "logout" ->
                    "An internal server error occurred during logout. Please try again later."
               [] route = "create_new_task" ->
                    "Internal server error while creating the task"
               [] route = "get_tasks_by_user" ->
                    "Internal server error while getting tasks"
               [] route = "delete_task_by_id_route" ->
                    "Internal server error while deleting the task"
               [] route = "update_task_route" ->
                    "Internal server error while updating the task"))

\* An exception no handler catches: the framework's own 500.
Unhandled == HTTPException(500, Detail("Internal Server Error"))

\* ------------------------------------------------------------------ state
VARIABLES
    users,      \* the users table
    tasks,      \* the tasks table
    now,        \* the wall clock
    nextId,     \* the next uuid
    req         \* the requests in flight, by slot

vars == <<users, tasks, now, nextId, req>>

Idle ==
    [route |-> "", pc |-> "idle", header |-> "", state |-> "Unauthenticated",
     verifier |-> 0, credentials |-> {}, claims |-> {}, error |-> {},
     username |-> {}, task_id |-> {}, token |-> {}, new_user |-> {},
     user |-> {}, task |-> {}, payload |-> {}, at |-> {}, calls |-> <<>>,
     outbound |-> <<>>, pending |-> {}, raised |-> {}, resp |-> {}]

Init ==
    /\ users = {}
    /\ tasks = {}
    /\ now = 0
    /\ nextId = 1
    /\ req = [r \in Reqs |-> Idle]

\* The first step of each handler body.
FirstStep(route) ==
    CASE route = "signin" -> "auth_with_code"
      [] route = "me" -> "get_user_by_username"
      [] route = "logout" -> "logout_with_token"
      [] route = "create_new_task" -> "get_user_by_username"
      [] route = "get_tasks_by_user" -> "get_user_by_username"
      [] route = "delete_task_by_id_route" -> "get_task_by_id"
      [] route = "update_task_route" -> "get_task_by_id"

Call(r, name) == Append(req[r].calls, name)

\* The handler in slot r has made the outbound call `call` to the identity
\* provider, with this outcome.
Outbound(r, call, outcome) ==
    Append(req[r].outbound, [call |-> call, outcome |-> outcome])

\* The request in slot r ends with response x after calling `name`.
Finish(r, x, name) ==
    [req[r] EXCEPT !.pc = "done", !.resp = {x}, !.calls = Call(r, name),
                   !.new_user = {}, !.user = {}, !.task = {}]

Done(r, x, name) == req' = [req EXCEPT ![r] = Finish(r, x, name)]

\* The call `name` raised `exc`, and the request ends with response x.
Raised(r, exc, x, name) ==
    req' = [req EXCEPT ![r] = [Finish(r, x, name) EXCEPT !.raised = {exc}]]

\* The requests that may still insert a task row.
Creating ==
    {r \in Reqs : req[r].route = "create_new_task" /\ req[r].pc \notin {"idle", "done"}}

\* A request: its route, Authorization header, path parameter and body.
Request(route, header, task_id, body) ==
    [route |-> route, header |-> header, task_id |-> task_id, body |-> body]

\* A request arrives; the dependencies of its route run.
Arrive(q) ==
    LET a == IF Protected(q.route) THEN Authorize(q.header)
             ELSE [state |-> "Unauthenticated", verifier |-> 0, username |-> {},
                   error |-> {}]
        started == [Idle EXCEPT !.route = q.route, !.header = q.header.kind,
                                !.state = a.state,
                                !.credentials = q.header.token,
                                !.claims = a.username, !.error = a.error,
                                !.verifier = a.verifier, !.task_id = q.task_id,
                                !.payload = q.body]
    IN  IF a.state = "Rejected"
        THEN [started EXCEPT !.pc = "done",
                             !.resp = {HTTPException(401, Detail("Unauthorized"))}]
        ELSE [started EXCEPT !.pc = FirstStep(q.route),
                             !.username = IF q.route \in {"me", "create_new_task",
                                                           "get_tasks_by_user"}
                                          THEN a.username ELSE {}]

\* A request of `requests` arrives in a free slot; at most `limit` tasks
\* are ever created.
Begin(r, requests, limit) ==
    /\ req[r].pc \in {"idle", "done"}
    /\ \E started \in {Arrive(q) : q \in
              {x \in requests : x.route = "create_new_task"
                                   => nextId + Cardinality(Creating) <= limit}} :
         req' = [req EXCEPT ![r] = started]
    /\ UNCHANGED <<users, tasks, now, nextId>>

Tick ==
    /\ now < MaxTime
    /\ now' = now + 1
    /\ UNCHANGED <<users, tasks, nextId, req>>

\* ---------------------------------------------------------------- sign-in
\* signin, lines 45-52: exchange the code; None answers 401.
signin_auth_with_code(r) ==
    /\ req[r].route = "signin" /\ req[r].pc = "auth_with_code"
    /\ \/ \E response \in TokenResponses :
            LET token == auth_with_code(response)
                post == Outbound(r, "requests.post",
                                 [raised |-> FALSE, response |-> {response}])
                failed == Finish(r, HTTPException(401,
                            Detail("Invalid authorization code. Please try again.")),
                            "auth_with_code")
            IN  IF token = {}
                THEN req' = [req EXCEPT ![r] = [failed EXCEPT !.outbound = post]]
                ELSE req' = [req EXCEPT ![r].pc = "user_info_with_token",
                                        ![r].token = token,
                                        ![r].calls = Call(r, "auth_with_code"),
                                        ![r].outbound = post]
       \/ LET post == Outbound(r, "requests.post",
                                [raised |-> TRUE, response |-> {}])
               ended == Finish(r, InternalError("signin"), "auth_with_code")
           IN  req' = [req EXCEPT ![r] = [ended EXCEPT
                                             !.raised = {"RequestException"},
                                             !.outbound = post]]
    /\ UNCHANGED <<users, tasks, now, nextId>>

\* A sign-in that does not stop when the user-info lookup fails.
signin_user_info_unchecked(r) ==
    /\ req[r].route = "signin" /\ req[r].pc = "user_info_with_token"
    /\ \E code \in {200, 400}, token \in req[r].token : \E access \in token.token :
          LET user_info == user_info_with_token(GetUserResponse(IdentityOf(access), code))
          IN  req' = [req EXCEPT ![r].pc = "get_user_by_username",
                                 ![r].new_user = {UserCreate(i) : i \in user_info},
                                 ![r].calls = Call(r, "user_info_with_token")]
    /\ UNCHANGED <<users, tasks, now, nextId>>

\* signin, lines 54-70: fetch the user's attributes; None answers 400.
signin_user_info_with_token(r) ==
    /\ req[r].route = "signin" /\ req[r].pc = "user_info_with_token"
    /\ \/ \E code \in {200, 400}, token \in req[r].token : \E access \in token.token :
            LET user_info == user_info_with_token(GetUserResponse(IdentityOf(access), code))
            IN  IF user_info = {}
                THEN Done(r, HTTPException(400,
                        Detail("Failed to retrieve user information.")),
                        "user_info_with_token")
                ELSE req' = [req EXCEPT ![r].pc = "get_user_by_username",
                                        ![r].new_user = {UserCreate(i) : i \in user_info},
                                        ![r].calls = Call(r, "user_info_with_token")]
       \/ Raised(r, "ClientError", InternalError("signin"), "user_info_with_token")
    /\ UNCHANGED <<users, tasks, now, nextId>>

LoginSuccessful(r) ==
    Response(200, [token |-> req[r].token, message |-> "Login successful."])

\* A sign-in that refreshes the names of the row its username lookup found.
signin_get_user_by_username_refresh(r) ==
    /\ req[r].route = "signin" /\ req[r].pc = "get_user_by_username"
    /\ \E new_user \in req[r].new_user :
          LET existing_user == get_user_by_username(users, new_user.username)
          IN  IF existing_user # {}
              THEN /\ Done(r, LoginSuccessful(r), "get_user_by_username")
                   /\ users' = (users \ existing_user) \cup
                         {[u EXCEPT !.given_name = new_user.given_name,
                                    !.family_name = new_user.family_name]
                            : u \in existing_user}
              ELSE /\ req' = [req EXCEPT ![r].pc = "get_user_by_email",
                                         ![r].calls = Call(r, "get_user_by_username")]
                   /\ UNCHANGED users
    /\ UNCHANGED <<tasks, now, nextId>>

\* signin, lines 73-74 and 76-85: the username lookup; a match skips the
\* email lookup and the creation.
signin_get_user_by_username(r) ==
    /\ req[r].route = "signin" /\ req[r].pc = "get_user_by_username"
    /\ \/ \E new_user \in req[r].new_user :
            LET existing_user == get_user_by_username(users, new_user.username)
            IN  IF existing_user # {}
                THEN Done(r, LoginSuccessful(r), "get_user_by_username")
                ELSE req' = [req EXCEPT ![r].pc = "get_user_by_email",
                                        ![r].calls = Call(r, "get_user_by_username")]
       \/ Raised(r, "OperationalError", InternalError("signin"), "get_user_by_username")
    /\ UNCHANGED <<users, tasks, now, nextId>>

\* signin, lines 75-85: the email lookup; a match skips the creation.
signin_get_user_by_email(r) ==
    /\ req[r].route = "signin" /\ req[r].pc = "get_user_by_email"
    /\ \/ \E new_user \in req[r].new_user :
            LET existing_user == get_user_by_email(users, new_user.email)
            IN  IF existing_user # {}
                THEN Done(r, LoginSuccessful(r), "get_user_by_email")
                ELSE req' = [req EXCEPT ![r].pc = "create_user",
                                        ![r].calls = Call(r, "get_user_by_email")]
       \/ Raised(r, "OperationalError", InternalError("signin"), "get_user_by_email")
    /\ UNCHANGED <<users, tasks, now, nextId>>

\* signin, lines 76-95: create the user; an exception answers 500.
signin_create_user(r) ==
    /\ req[r].route = "signin" /\ req[r].pc = "create_user"
    /\ \/ \E new_user \in req[r].new_user :
            LET created == create_user(users, new_user)
            IN  /\ users' = created.users
                /\ IF created.raised
                   THEN Raised(r, "IntegrityError", InternalError("signin"), "create_user")
                   ELSE Done(r, LoginSuccessful(r), "create_user")
       \/ /\ Raised(r, "OperationalError", InternalError("signin"), "create_user")
          /\ UNCHANGED users
    /\ UNCHANGED <<tasks, now, nextId>>

\* ------------------------------------------------------- /auth/me, logout
\* get_current_user_info, lines 120-147.
get_current_user_info(r) ==
    /\ req[r].route = "me" /\ req[r].pc = "get_user_by_username"
    /\ \/ \E current_username \in req[r].username :
            LET user == get_user_by_username(users, current_username)
            IN  IF user = {}
                THEN Done(r, HTTPException(404, Detail("User not found.")),
                          "get_user_by_username")
                ELSE Done(r, Response(200, CHOOSE u \in user : TRUE),
                          "get_user_by_username")
       \/ Raised(r, "OperationalError", InternalError("me"), "get_user_by_username")
    /\ UNCHANGED <<users, tasks, now, nextId>>

\* logout, lines 163-192.
logout(r) ==
    /\ req[r].route = "logout" /\ req[r].pc = "logout_with_token"
    /\ \E outcome \in SignOutOutcomes :
         LET answer == IF logout_with_token(outcome)
                       THEN Response(200, [message |-> "Logout successful."])
                       ELSE HTTPException(400,
                                Detail("Failed to log out. Please try again."))
             ended == Finish(r, answer, "logout_with_token")
         IN  req' = [req EXCEPT ![r] = [ended EXCEPT !.outbound =
                                 Outbound(r, "global_sign_out", outcome)]]
    /\ UNCHANGED <<users, tasks, now, nextId>>

\* ------------------------------------------------------------ task routes
\* create_new_task, lines 47-54: the user lookup, outside the try block.
create_new_task_get_user(r) ==
    /\ req[r].route = "create_new_task" /\ req[r].pc = "get_user_by_username"
    /\ \/ \E user_username \in req[r].username :
            LET user == get_user_by_username(users, user_username)
            IN  IF user = {}
                THEN Done(r, HTTPException(404, Detail("User not found")),
                          "get_user_by_username")
                ELSE req' = [req EXCEPT ![r].pc = "create_task", ![r].user = user,
                                        ![r].calls = Call(r, "get_user_by_username")]
       \/ Raised(r, "OperationalError", Unhandled, "get_user_by_username")
    /\ UNCHANGED <<users, tasks, now, nextId>>

\* What the try block of create_new_task answers for an outcome of create_task.
CreateAnswer(created) ==
    IF created.raised = ""
    THEN Response(201, TaskResponse(CHOOSE t \in created.result : TRUE))
    ELSE InternalError("create_new_task")

\* create_new_task, lines 56-72.
create_new_task_create_task(r) ==
    /\ req[r].route = "create_new_task" /\ req[r].pc = "create_task"
    /\ \E task_data \in req[r].payload, user \in req[r].user :
         \/ LET created == create_task(tasks, users, task_data, user.id, nextId, now)
                ended == [Finish(r, CreateAnswer(created), "create_task")
                            EXCEPT !.at = {now},
                                   !.raised = IF created.raised = "" THEN {}
                                              ELSE {created.raised}]
            IN  /\ tasks' = created.tasks
                /\ nextId' = IF created.raised = "" THEN nextId + 1 ELSE nextId
                /\ req' = [req EXCEPT ![r] = ended]
         \/ /\ Raised(r, "OperationalError", InternalError("create_new_task"),
                      "create_task")
            /\ UNCHANGED <<tasks, nextId>>
    /\ UNCHANGED <<users, now>>

\* get_tasks_by_user, lines 96-103: the user lookup, outside the try block.
get_tasks_by_user_get_user(r) ==
    /\ req[r].route = "get_tasks_by_user" /\ req[r].pc = "get_user_by_username"
    /\ \/ \E user_username \in req[r].username :
            LET user == get_user_by_username(users, user_username)
            IN  IF user = {}
                THEN Done(r, HTTPException(404, Detail("User not found")),
                          "get_user_by_username")
                ELSE req' = [req EXCEPT ![r].pc = "get_tasks_by_user_id",
                                        ![r].user = user,
                                        ![r].calls = Call(r, "get_user_by_username")]
       \/ Raised(r, "OperationalError", Unhandled, "get_user_by_username")
    /\ UNCHANGED <<users, tasks, now, nextId>>

\* get_tasks_by_user, lines 105-121.
get_tasks_by_user_query(r) ==
    /\ req[r].route = "get_tasks_by_user" /\ req[r].pc = "get_tasks_by_user_id"
    /\ \/ \E user \in req[r].user : \E rows \in get_tasks_by_user_id(tasks, user.id) :
            Done(r, Response(200, [i \in DOMAIN rows |-> TaskResponse(rows[i])]),
                 "get_tasks_by_user_id")
       \/ Raised(r, "OperationalError", InternalError("get_tasks_by_user"),
                 "get_tasks_by_user_id")
    /\ UNCHANGED <<users, tasks, now, nextId>>

NoContent == [status_code |-> 204, detail |-> Detail(""), content |-> {}]

\* delete_task_by_id_route, lines 141-147: the existence check.
delete_task_by_id_route_get(r) ==
    /\ req[r].route = "delete_task_by_id_route" /\ req[r].pc = "get_task_by_id"
    /\ \/ \E task_id \in req[r].task_id :
            LET task == get_task_by_id(tasks, task_id)
            IN  IF task = {}
                THEN Done(r, HTTPException(404, TaskNotFound(task_id)), "get_task_by_id")
                ELSE req' = [req EXCEPT ![r].pc = "delete_task_by_id", ![r].task = task,
                                        ![r].calls = Call(r, "get_task_by_id")]
       \/ Raised(r, "OperationalError", InternalError("delete_task_by_id_route"),
                 "get_task_by_id")
    /\ UNCHANGED <<users, tasks, now, nextId>>

\* delete_task_by_id_route, lines 148-163.
delete_task_by_id_route_delete(r) ==
    /\ req[r].route = "delete_task_by_id_route" /\ req[r].pc = "delete_task_by_id"
    /\ \/ \E task_id \in req[r].task_id :
            /\ tasks' = delete_task_by_id(tasks, task_id)
            /\ Done(r, NoContent, "delete_task_by_id")
       \/ /\ Raised(r, "OperationalError", InternalError("delete_task_by_id_route"),
                    "delete_task_by_id")
          /\ UNCHANGED tasks
    /\ UNCHANGED <<users, now, nextId>>

\* The actor of slot r owns the task with this id.
Owns(r, task_id) ==
    \E t \in tasks, u \in users :
        t.id = task_id /\ t.user_id = u.id /\ u.username \in req[r].claims

\* An existence check that hides the tasks of other actors.
update_task_route_get_owned(r) ==
    /\ req[r].route = "update_task_route" /\ req[r].pc = "get_task_by_id"
    /\ \E task_id \in req[r].task_id :
          LET task == get_task_by_id(tasks, task_id)
          IN  IF task = {} \/ ~Owns(r, task_id)
              THEN Done(r, HTTPException(404, TaskNotFound(task_id)), "get_task_by_id")
              ELSE req' = [req EXCEPT ![r].pc = "update_task", ![r].task = task,
                                      ![r].calls = Call(r, "get_task_by_id")]
    /\ UNCHANGED <<users, tasks, now, nextId>>

\* update_task_route, lines 187-193: the existence check.
update_task_route_get(r) ==
    /\ req[r].route = "update_task_route" /\ req[r].pc = "get_task_by_id"
    /\ \/ \E task_id \in req[r].task_id :
            LET task == get_task_by_id(tasks, task_id)
            IN  IF task = {}
                THEN Done(r, HTTPException(404, TaskNotFound(task_id)), "get_task_by_id")
                ELSE req' = [req EXCEPT ![r].pc = "update_task", ![r].task = task,
                                        ![r].calls = Call(r, "get_task_by_id")]
       \/ Raised(r, "OperationalError", InternalError("update_task_route"),
                 "get_task_by_id")
    /\ UNCHANGED <<users, tasks, now, nextId>>

\* What the try block of update_task_route answers for an outcome of update_task.
UpdateAnswer(updated) ==
    IF updated.raised = ""
    THEN Response(200, TaskResponse(CHOOSE t \in updated.result : TRUE))
    ELSE InternalError("update_task_route")

\* update_task_route, lines 195-210.
update_task_route_update(r) ==
    /\ req[r].route = "update_task_route" /\ req[r].pc = "update_task"
    /\ \E task_data \in req[r].payload, task_id \in req[r].task_id :
         \/ LET updated == update_task(tasks, req[r].task, task_id, task_data, now)
                ended == [Finish(r, UpdateAnswer(updated), "update_task")
                            EXCEPT !.at = {now},
                                   !.raised = IF updated.raised = "" THEN {}
                                              ELSE {updated.raised}]
            IN  /\ tasks' = updated.tasks
                /\ req' = [req EXCEPT ![r] = ended]
         \/ /\ Raised(r, "OperationalError", InternalError("update_task_route"),
                      "update_task")
            /\ UNCHANGED tasks
    /\ UNCHANGED <<users, now, nextId>>

\* --------------------------------------------------------- specifications
Bearer(username) ==
    [kind |-> "bearer",
     token |-> {[kid |-> TRUE, sig |-> TRUE, fresh |-> TRUE, username |-> username]}]

NoHeader == [kind |-> "absent", token |-> {}]

\* The whole API from an empty database: every route with every
\* Authorization header, one request at a time.
AllRequests ==
    {Request("signin", NoHeader, {}, {})}
    \cup {Request(route, h, {}, {}) : route \in {"me", "logout", "get_tasks_by_user"},
                                     h \in Headers}
    \cup {Request("create_new_task", h, {}, {b})
            : h \in Headers, b \in {x \in CreateBodies : x.deadline = {}}}
    \cup {Request("delete_task_by_id_route", h, {id}, {})
            : h \in Headers, id \in 1..MaxTasks}
    \cup {Request("update_task_route", h, {id}, {b})
            : h \in Headers, id \in 1..MaxTasks,
              b \in {x \in UpdateBodies : x.deadline = {}}}

Next ==
    \E r \in {"r1"} :
        \/ Begin(r, AllRequests, MaxTasks)
        \/ signin_auth_with_code(r)
        \/ signin_user_info_with_token(r)
        \/ signin_get_user_by_username(r)
        \/ signin_get_user_by_email(r)
        \/ signin_create_user(r)
        \/ get_current_user_info(r)
        \/ logout(r)
        \/ create_new_task_get_user(r)
        \/ create_new_task_create_task(r)
        \/ get_tasks_by_user_get_user(r)
        \/ get_tasks_by_user_query(r)
        \/ delete_task_by_id_route_get(r)
        \/ delete_task_by_id_route_delete(r)
        \/ update_task_route_get(r)
        \/ update_task_route_update(r)

Spec == Init /\ [][Next]_vars

\* The sign-in flow: concurrent sign-ins of every identity, and /auth/me.
SigninRequests ==
    {Request("signin", NoHeader, {}, {})}
    \cup {Request("me", Bearer(u), {}, {}) : u \in Usernames}

NextSignin ==
    \E r \in Reqs :
        \/ Begin(r, SigninRequests, 0)
        \/ signin_auth_with_code(r)
        \/ signin_user_info_with_token(r)
        \/ signin_get_user_by_username(r)
        \/ signin_get_user_by_email(r)
        \/ signin_create_user(r)
        \/ get_current_user_info(r)

SpecSignin == Init /\ [][NextSignin]_vars

\* The users tables sign-ins can produce: rows of identities, no two of
\* them sharing an id, a username or an email.
UserTables ==
    {T \in SUBSET {UserModel(UserCreate(GetUserResponse(i, 200))) : i \in Identities} :
        \A u, v \in T : u # v =>
            u.id # v.id /\ u.username # v.username /\ u.email # v.email}

\* The task routes one request at a time, by verified actors, over any
\* users table, with the clock running.
TaskRequests ==
    {Request("create_new_task", Bearer(u), {}, {b}) : u \in Usernames, b \in CreateBodies}
    \cup {Request("get_tasks_by_user", Bearer(u), {}, {}) : u \in Usernames}
    \cup {Request("delete_task_by_id_route", Bearer(u), {id}, {})
            : u \in Usernames, id \in 1..MaxTasks}
    \cup {Request("update_task_route", Bearer(u), {id}, {b})
            : u \in Usernames, id \in 1..MaxTasks, b \in UpdateBodies}

InitTasks ==
    /\ users \in UserTables
    /\ tasks = {}
    /\ now = 0
    /\ nextId = 1
    /\ req = [r \in Reqs |-> Idle]

NextTasks ==
    \/ Tick
    \/ \E r \in {"r1"} :
         \/ Begin(r, TaskRequests, MaxTasks)
         \/ create_new_task_get_user(r)
         \/ create_new_task_create_task(r)
         \/ get_tasks_by_user_get_user(r)
         \/ get_tasks_by_user_query(r)
         \/ delete_task_by_id_route_get(r)
         \/ delete_task_by_id_route_delete(r)
         \/ update_task_route_get(r)
         \/ update_task_route_update(r)

SpecTasks == InitTasks /\ [][NextTasks]_vars

\* The task routes with bodies that carry no deadline, one request at a
\* time: what creations, updates and deletions leave for the lookups and
\* the listing.
CrudRequests ==
    {q \in TaskRequests : \A b \in q.body : b.deadline = {}}

NextCrud ==
    \/ Tick
    \/ \E r \in {"r1"} :
         \/ Begin(r, CrudRequests, MaxTasks)
         \/ create_new_task_get_user(r)
         \/ create_new_task_create_task(r)
         \/ get_tasks_by_user_get_user(r)
         \/ get_tasks_by_user_query(r)
         \/ delete_task_by_id_route_get(r)
         \/ delete_task_by_id_route_delete(r)
         \/ update_task_route_get(r)
         \/ update_task_route_update(r)

SpecCrud == InitTasks /\ [][NextCrud]_vars

\* The task routes two requests at a time, over a users table of two, with
\* bodies that carry no deadline.
RaceRequests ==
    {Request("create_new_task", Bearer("bob"), {}, {b})
        : b \in {x \in CreateBodies : x.deadline = {}}}
    \cup {Request("delete_task_by_id_route", Bearer("bob"), {id}, {})
            : id \in 1..MaxTasks}
    \cup {Request("update_task_route", Bearer("alice"), {id}, {b})
            : id \in 1..MaxTasks,
              b \in {x \in UpdateBodies : x.deadline = {}}}

InitRace ==
    /\ users \in {T \in UserTables : Cardinality(T) = 2}
    /\ tasks = {}
    /\ now = 0
    /\ nextId = 1
    /\ req = [r \in Reqs |-> Idle]

NextRace ==
    \/ Tick
    \/ \E r \in Reqs :
         \/ Begin(r, RaceRequests, MaxTasks)
         \/ create_new_task_get_user(r)
         \/ create_new_task_create_task(r)
         \/ delete_task_by_id_route_get(r)
         \/ delete_task_by_id_route_delete(r)
         \/ update_task_route_get(r)
         \/ update_task_route_update(r)

SpecRace == InitRace /\ [][NextRace]_vars

\* ------------------------------------------------------------------ claims
\* No request is in flight.
Quiet == \A r \in Reqs : req[r].pc \in {"idle", "done"}

\* The identities the code of the sign-in in slot r mapped to.
SignedIn(r) ==
    {IdentityOf(access) : access \in UNION {token.token : token \in req[r].token}}

Answered(r, route, status_code) ==
    /\ req[r].route = route
    /\ req[r].pc = "done"
    /\ \E x \in req[r].resp : x.status_code = status_code

\* C1: once every request has finished, the users table holds exactly one
\* row whose id is the subject of each identity that signed in.
C1_ExactlyOneRowPerIdentity ==
    Quiet =>
        \A r \in Reqs : Answered(r, "signin", 200) =>
            \A i \in SignedIn(r) : Cardinality({u \in users : u.id = i.sub}) = 1


\* The routes the specification lists as protected.
ProtectedRoutes ==
    {"create_new_task", "get_tasks_by_user", "update_task_route",
     "delete_task_by_id_route", "me", "logout"}

Unauthorized == HTTPException(401, Detail("Unauthorized"))

\* C2: a request to a protected route ends its authorization Verified or
\* Rejected; without a well-formed bearer header it is rejected with 401 and
\* the verifier is not invoked; the handler body makes a call, or is about
\* to, only when the request is Verified.
C2_HandlerRunsOnlyWhenVerified ==
    \A r \in Reqs : req[r].route \in ProtectedRoutes /\ req[r].pc # "idle" =>
        /\ req[r].state \in {"Verified", "Rejected"}
        /\ req[r].header # "bearer" =>
              /\ req[r].state = "Rejected"
              /\ req[r].verifier = 0
        /\ req[r].state = "Rejected" =>
              /\ req[r].pc = "done"
              /\ req[r].resp = {Unauthorized}
              /\ req[r].calls = <<>>
        /\ (req[r].pc # "done" \/ req[r].calls # <<>>) =>
              /\ req[r].state = "Verified"
              /\ req[r].verifier = 1

\* A DELETE without a header was rejected, the verifier not invoked, and
\* the task a verified request created is still stored.
C2_Witness ==
    \E r \in Reqs :
        /\ req[r].route = "delete_task_by_id_route" /\ req[r].header = "absent"
        /\ req[r].state = "Rejected" /\ req[r].verifier = 0
        /\ req[r].resp = {Unauthorized} /\ req[r].calls = <<>>
        /\ \E t \in tasks : {t.id} = req[r].task_id


\* The step in which create_task, called for slot r, returns or raises, the
\* database being reachable.
CreateStep(r) ==
    /\ req[r].route = "create_new_task" /\ req[r].pc = "create_task"
    /\ req'[r].pc = "done"
    /\ "OperationalError" \notin req'[r].raised

\* The step answered 201 and added one row.
Created(r) ==
    /\ req'[r].raised = {}
    /\ \E x \in req'[r].resp : x.status_code = 201
    /\ \E row \in tasks' \ tasks : tasks' = tasks \cup {row}

\* d <= clock.
AtOrBefore(d, clock) == d.t < clock \/ (d.t = clock /\ d.microsecond = 0)

\* C3: a creation with a deadline d <= now fails with a validation error and
\* adds no row; with d > now, or with no deadline, it succeeds.
C3_DeadlineMustBeAfterNow ==
    [][\A r \in Reqs : CreateStep(r) =>
          \A body \in req[r].payload :
              /\ body.deadline = {} => Created(r)
              /\ \A d \in body.deadline :
                    IF AtOrBefore(d, now)
                    THEN req'[r].raised = {"ValueError"} /\ tasks' = tasks
                    ELSE Created(r)]_vars

\* C4: when create_task raises ValueError, POST /tasks answers 400 with the
\* error's message as detail, and the tasks table is unchanged.
C4_ValueErrorAnswers400 ==
    [][\A r \in Reqs : CreateStep(r) /\ req'[r].raised = {"ValueError"} =>
          /\ req'[r].resp = {HTTPException(400, Detail("Deadline must be in the future"))}
          /\ tasks' = tasks]_vars


\* The step in which the existence check of slot r's request to `route`
\* returns, the database being reachable.
LookupStep(r, route) ==
    /\ req[r].route = route /\ req[r].pc = "get_task_by_id"
    /\ req'[r].pc # "get_task_by_id"
    /\ req'[r].raised = {}

\* No stored task has the id.
Unknown(task_id) == \A t \in tasks : t.id # task_id

\* C5: PUT /tasks/{id} for an id that matches no row answers 404 with
\* detail 'Task with id {id} not found', never calls update_task and leaves
\* the tasks table unchanged.
C5_UpdateUnknownIdIs404 ==
    [][\A r \in Reqs : \A task_id \in req[r].task_id :
          LookupStep(r, "update_task_route") /\ Unknown(task_id) =>
              /\ req'[r].pc = "done"
              /\ req'[r].resp = {HTTPException(404, TaskNotFound(task_id))}
              /\ \A k \in DOMAIN req'[r].calls : req'[r].calls[k] # "update_task"
              /\ tasks' = tasks]_vars

\* A PUT for id 2 was answered 404 while another task is stored.
C5_Witness ==
    \E r \in Reqs :
        /\ Answered(r, "update_task_route", 404)
        /\ req[r].task_id = {2}
        /\ req[r].calls = <<"get_task_by_id">>
        /\ tasks # {}


\* C6: the existence check of DELETE /tasks/{id} answers 404 with detail
\* 'Task with id {id} not found' and changes nothing when no row has the id,
\* and lets the request proceed otherwise, exactly as the check of
\* PUT /tasks/{id} does; DELETE answers 204 only for a task its check found,
\* and no row with the id is stored afterwards.
C6_DeleteExistencePolicy ==
    [][\A r \in Reqs : \A task_id \in req[r].task_id :
          /\ \A route \in {"delete_task_by_id_route", "update_task_route"} :
                LookupStep(r, route) =>
                    IF Unknown(task_id)
                    THEN /\ req'[r].pc = "done"
                         /\ req'[r].resp = {HTTPException(404, TaskNotFound(task_id))}
                         /\ tasks' = tasks
                    ELSE /\ req'[r].pc # "done"
                         /\ req'[r].resp = {}
          /\ ( /\ req[r].route = "delete_task_by_id_route"
               /\ req[r].pc # "done" /\ req'[r].pc = "done"
               /\ \E x \in req'[r].resp : x.status_code = 204 ) =>
                    /\ \E t \in req[r].task : t.id = task_id
                    /\ \A t \in tasks' : t.id # task_id]_vars

\* One DELETE was answered 204 and removed the task; another, for the same
\* id, was answered 404.
C6_Witness ==
    \E r, s \in Reqs :
        /\ Answered(r, "delete_task_by_id_route", 204)
        /\ Answered(s, "delete_task_by_id_route", 404)
        /\ req[r].task_id = req[s].task_id
        /\ req[s].resp = {HTTPException(404, TaskNotFound(1))}
        /\ tasks = {}


\* The step in which the query of slot r's GET /tasks returns.
ListStep(r) ==
    /\ req[r].route = "get_tasks_by_user" /\ req[r].pc = "get_tasks_by_user_id"
    /\ req'[r].pc = "done"
    /\ req'[r].raised = {}

\* C7: GET /tasks answers 200 with exactly the stored tasks whose user_id
\* is the id of the actor's user row, each once, in non-decreasing
\* created_at order; the sequence is empty when the user has no task.
C7_ListExactlyOwnTasksInOrder ==
    [][\A r \in Reqs : ListStep(r) =>
          \A name \in req[r].username : \A u \in {x \in users : x.username = name} :
              LET own == {t \in tasks : t.user_id = u.id}
              IN  \E x \in req'[r].resp : \E rows \in x.content :
                      /\ x.status_code = 200
                      /\ Cardinality(DOMAIN rows) = Cardinality(own)
                      /\ {rows[k].id : k \in DOMAIN rows} = {t.id : t \in own}
                      /\ \A k \in DOMAIN rows : \E t \in own :
                            /\ rows[k].id = t.id /\ rows[k].title = t.title
                            /\ rows[k].created_at = t.created_at
                      /\ \A j, k \in DOMAIN rows :
                            j < k => rows[j].created_at <= rows[k].created_at
                      /\ own = {} => rows = <<>>]_vars

\* A listing answered two tasks created at different times, the earlier
\* first.
C7_Witness ==
    \E r \in Reqs :
        /\ Answered(r, "get_tasks_by_user", 200)
        /\ \E x \in req[r].resp : \E rows \in x.content :
              /\ DOMAIN rows = 1..2
              /\ rows[1].created_at < rows[2].created_at


\* The stored datetime `value`, in whole seconds, is the datetime d.
SameInstant(value, d) == value = d.t /\ d.microsecond = 0

\* C8: get_task_by_id applied to the id create_task returned, nothing
\* happening in between, gives a record whose title, description, priority,
\* deadline and user_id are the submitted ones.
C8_CreateThenGetRoundTrip ==
    [][\A r \in Reqs : CreateStep(r) /\ req'[r].raised = {} =>
          \A body \in req[r].payload, user \in req[r].user :
              \E x \in req'[r].resp : \E created \in x.content :
                  \E row \in get_task_by_id(tasks', created.id) :
                      /\ row.title = body.title
                      /\ row.description = body.description
                      /\ row.priority = body.priority
                      /\ row.user_id = user.id
                      /\ row.deadline = {} <=> body.deadline = {}
                      /\ \A value \in row.deadline, d \in body.deadline :
                            SameInstant(value, d)]_vars


\* The order of the calls of a sign-in.
SigninOrder ==
    <<"auth_with_code", "user_info_with_token", "get_user_by_username",
      "get_user_by_email", "create_user">>

\* C9: every sign-in whose code exchange and user-info lookup succeeded, the
\* database being reachable, answers 200 with the token payload and
\* 'Login successful.', whether a row matched or the user is new.
C9_SigninAnswers200 ==
    \A r \in Reqs :
        ( /\ req[r].route = "signin" /\ req[r].pc = "done"
          /\ Len(req[r].calls) > 2
          /\ "OperationalError" \notin req[r].raised ) =>
            \E token \in req[r].token :
                /\ DOMAIN token = {"token", "expires_in"}
                /\ req[r].resp =
                     {Response(200, [token |-> {token}, message |-> "Login successful."])}

\* C10: a sign-in calls in order and stops at the first failure: a failed
\* code exchange answers 401 with no user-info call and no access to the
\* users table; a failed user-info lookup answers 400 with no access to the
\* users table; either leaves the users table unchanged.
C10_SigninShortCircuits ==
    [][\A r \in Reqs : req[r].route = "signin" /\ req'[r].route = "signin" =>
          /\ req'[r].calls = SubSeq(SigninOrder, 1, Len(req'[r].calls))
          /\ ( /\ req[r].pc = "auth_with_code" /\ req'[r].pc # "auth_with_code"
               /\ req'[r].raised = {} /\ req'[r].token = {} ) =>
                  /\ req'[r].pc = "done"
                  /\ req'[r].resp = {HTTPException(401,
                        Detail("Invalid authorization code. Please try again."))}
                  /\ req'[r].calls = <<"auth_with_code">>
                  /\ users' = users
          /\ ( /\ req[r].pc = "user_info_with_token"
               /\ req'[r].pc # "user_info_with_token"
               /\ req'[r].raised = {} /\ req'[r].new_user = {} ) =>
                  /\ req'[r].pc = "done"
                  /\ req'[r].resp = {HTTPException(400,
                        Detail("Failed to retrieve user information."))}
                  /\ req'[r].calls = <<"auth_with_code", "user_info_with_token">>
                  /\ users' = users]_vars

\* One sign-in ended 401 after the exchange alone, another 400 after the
\* user-info lookup, and a third party's row is stored untouched.
C10_Witness ==
    \E r, s \in Reqs :
        /\ Answered(r, "signin", 401) /\ req[r].calls = <<"auth_with_code">>
        /\ Answered(s, "signin", 400)
        /\ req[s].calls = <<"auth_with_code", "user_info_with_token">>
        /\ req[r].raised = {} /\ req[s].raised = {}
        /\ Cardinality(users) = 1


\* C11: no two rows of the users table share an id, a username or an email.
C11_UsersUnique ==
    \A u, v \in users : u # v =>
        /\ u.id # v.id
        /\ u.username # v.username
        /\ u.email # v.email

\* Two identities are stored, and a concurrent sign-in of a third, which
\* shares a username or an email with one of them, lost its insert.
C11_Witness ==
    /\ Cardinality(users) = 2
    /\ \E r \in Reqs :
          /\ Answered(r, "signin", 500)
          /\ req[r].raised = {"IntegrityError"}
          /\ \A i \in SignedIn(r) : \A u \in users : u.id # i.sub


\* C12: every task row's user_id is the id of a row of the users table.
C12_EveryTaskHasOwner ==
    \A t \in tasks : \E u \in users : u.id = t.user_id

\* Two signed-in users each own a stored task.
C12_Witness ==
    /\ Cardinality(tasks) = 2
    /\ Cardinality({t.user_id : t \in tasks}) = 2
    /\ \E r \in Reqs : Answered(r, "create_new_task", 201)


\* Concurrent updates: two slots, a task created by bob, and PUT requests
\* carrying either deadline-less body.
UpdateRaceRequests ==
    {Request("create_new_task", Bearer("bob"), {}, {b})
        : b \in {x \in CreateBodies : x.deadline = {}}}
    \cup {Request("update_task_route", Bearer("alice"), {id}, {b})
            : id \in 1..MaxTasks,
              b \in {x \in TaskUpdate : x.deadline = {}}}

NextUpdateRace ==
    \E r \in Reqs :
       \/ Begin(r, UpdateRaceRequests, MaxTasks)
       \/ create_new_task_get_user(r)
       \/ create_new_task_create_task(r)
       \/ update_task_route_get(r)
       \/ update_task_route_update(r)

SpecUpdateRace == InitRace /\ [][NextUpdateRace]_vars

\* Deadlines under update: one task, created by bob with any deadline, PUT
\* requests for it carrying every deadline or none, the clock running, two
\* requests in flight.
DeadlineRequests ==
    {Request("create_new_task", Bearer("bob"), {}, {b}) : b \in CreateBodies}
    \cup {Request("update_task_route", Bearer("alice"), {1}, {b})
            : b \in UpdateBodies}

NextDeadline ==
    \/ Tick
    \/ \E r \in Reqs :
         \/ Begin(r, DeadlineRequests, 1)
         \/ create_new_task_get_user(r)
         \/ create_new_task_create_task(r)
         \/ update_task_route_get(r)
         \/ update_task_route_update(r)

SpecDeadline == InitRace /\ [][NextDeadline]_vars

\* ------------------------------------------------- one session, many calls
\* The task functions called one after another on one database session, as
\* the module-scoped session of the crud tests is.  `pending` holds, by
\* task id, the attribute values assigned to a row the session holds and
\* not yet flushed, with the error that kept them from being committed.
\* update_task, lines 75-78: the assignments made before the deadline check;
\* the deadline itself is assigned after it.
Pending(loaded, task) ==
    [Assigned(loaded, task) EXCEPT !.deadline = loaded.deadline,
                                   !.fraction = FALSE]

\* db.commit(): the flush writes the pending values of every row the session
\* holds.
Flush(table, pending) ==
    { IF \E p \in pending : p.id = t.id
      THEN Merge(t, t, (CHOOSE p \in pending : p.id = t.id).values)
      ELSE t : t \in table }

\* The last call made on the session, its arguments and its outcome.
Called(r, name, task_id, task, raised, pending) ==
    [req[r] EXCEPT !.calls = <<name>>, !.task_id = task_id, !.payload = {task},
                   !.raised = IF raised = "" THEN {} ELSE {raised},
                   !.pending = pending]

\* update_task(task_id, task, db) on the session, for a stored task.
session_update_task(r) ==
    /\ req[r].route = "session"
    /\ \E loaded \in tasks, task \in UpdateBodies :
          LET others == {p \in req[r].pending : p.id # loaded.id}
              updated == update_task(Flush(tasks, others), {}, loaded.id, task, now)
          IN  IF updated.raised = ""
              THEN /\ tasks' = updated.tasks
                   /\ req' = [req EXCEPT ![r] =
                                Called(r, "update_task", {loaded.id}, task, "", {})]
              ELSE /\ tasks' = tasks
                   /\ req' = [req EXCEPT ![r] =
                                Called(r, "update_task", {loaded.id}, task,
                                       updated.raised,
                                       others \cup {[id |-> loaded.id,
                                                     raised |-> updated.raised,
                                                     values |-> Pending(loaded, task)]})]
    /\ UNCHANGED <<users, now, nextId>>

\* create_task(task, user_id, db) on the session, for a stored user.
session_create_task(r) ==
    /\ req[r].route = "session"
    /\ nextId <= MaxTasks
    /\ \E user \in users, task \in CreateBodies :
          LET created == create_task(Flush(tasks, req[r].pending), users, task,
                                     user.id, nextId, now)
          IN  IF created.raised = ""
              THEN /\ tasks' = created.tasks
                   /\ nextId' = nextId + 1
                   /\ req' = [req EXCEPT ![r] =
                                Called(r, "create_task", {}, task, "", {})]
              ELSE /\ UNCHANGED <<tasks, nextId>>
                   /\ req' = [req EXCEPT ![r] =
                                Called(r, "create_task", {}, task, created.raised,
                                       req[r].pending)]
    /\ UNCHANGED <<users, now>>

InitSession ==
    /\ users \in {T \in UserTables : Cardinality(T) = 2}
    /\ tasks = {}
    /\ now = 0
    /\ nextId = 1
    /\ req = [r \in Reqs |-> IF r = "r1"
                             THEN [Idle EXCEPT !.route = "session", !.pc = "open"]
                             ELSE Idle]

NextSession ==
    \/ Tick
    \/ \E r \in {"r1"} :
         \/ session_update_task(r)
         \/ session_create_task(r)

SpecSession == InitSession /\ [][NextSession]_vars

\* The step in which slot r's update_task call returns.
UpdateStep(r) ==
    /\ req[r].route = "update_task_route" /\ req[r].pc = "update_task"
    /\ req'[r].pc = "done"
    /\ "OperationalError" \notin req'[r].raised

\* C13: a successful update sets title, description, status and priority of
\* the task to the payload's values and returns the updated record; the
\* row's id, user_id, created_at and category and every other row are
\* unchanged.
C13_UpdateSetsPayloadFields ==
    [][\A r \in Reqs : UpdateStep(r) /\ req'[r].raised = {} =>
          \A id \in req[r].task_id, b \in req[r].payload :
             \E old \in tasks, new \in tasks' :
                /\ old.id = id /\ new.id = id
                /\ new.title = b.title /\ new.description = b.description
                /\ new.status = b.status /\ new.priority = b.priority
                /\ req'[r].resp = {Response(200, TaskResponse(new))}
                /\ new.user_id = old.user_id /\ new.created_at = old.created_at
                /\ new.category = old.category
                /\ tasks' \ {new} = tasks \ {old}]_vars


\* C14: when update_task raises ValueError for an existing task, PUT
\* /tasks/{id} answers 400 with the error's message as detail, and the
\* stored row keeps every previous value.
C14_UpdateValueErrorAnswers400 ==
    [][\A r \in Reqs : UpdateStep(r) /\ req'[r].raised = {"ValueError"} =>
          /\ req'[r].resp = {HTTPException(400, Detail("Deadline must be in the future"))}
          /\ tasks' = tasks]_vars


\* The step in which slot r's handler of `route` finishes its user lookup,
\* the database answering.
UserLookupStep(r, route) ==
    /\ req[r].route = route /\ req[r].pc = "get_user_by_username"
    /\ req'[r].pc # "get_user_by_username"
    /\ req'[r].raised = {}

NoSuchUser(username) == \A u \in users : u.username \notin username

\* C15: POST /tasks and GET /tasks by a verified actor whose username matches
\* no user row answer 404 'User not found'; create_task is not called and
\* the tasks table is unchanged.
C15_UnknownActorIs404 ==
    [][\A r \in Reqs, route \in {"create_new_task", "get_tasks_by_user"} :
          UserLookupStep(r, route) /\ NoSuchUser(req[r].username) =>
             /\ req'[r].pc = "done"
             /\ req'[r].resp = {HTTPException(404, Detail("User not found"))}
             /\ req'[r].calls = <<"get_user_by_username">>
             /\ tasks' = tasks]_vars

\* POST /tasks has answered 404 to an actor without a user row, after the
\* lookup alone, while another user's task is stored.
C15_Witness ==
    /\ tasks # {}
    /\ \E r \in Reqs :
          /\ Answered(r, "create_new_task", 404)
          /\ req[r].calls = <<"get_user_by_username">>
          /\ NoSuchUser(req[r].username)


\* The step in which slot r's GET /auth/me handler answers, the database
\* answering.
MeStep(r) ==
    /\ req[r].route = "me" /\ req[r].pc = "get_user_by_username"
    /\ req'[r].pc = "done"
    /\ req'[r].raised = {}

\* C16: GET /auth/me answers 200 with the user row whose username is the
\* verified username when there is one and 404 'User not found.' when there
\* is none; it never answers with another user's row and never changes the
\* store.
C16_MeReturnsOwnRow ==
    [][\A r \in Reqs : MeStep(r) =>
          /\ \A u \in users : u.username \in req[r].username =>
                req'[r].resp = {Response(200, u)}
          /\ NoSuchUser(req[r].username) =>
                req'[r].resp = {HTTPException(404, Detail("User not found."))}
          /\ users' = users /\ tasks' = tasks]_vars

\* One request was answered with its own row while another user's row is
\* stored, and another request had been answered 404 before its user
\* signed in.
C16_Witness ==
    /\ Cardinality(users) = 2
    /\ \E r, s \in Reqs :
          /\ Answered(r, "me", 200)
          /\ \E u \in users : req[r].resp = {Response(200, u)}
                              /\ u.username \in req[r].username
          /\ Answered(s, "me", 404)


\* The step in which slot r's GET /auth/logout handler answers.
LogoutStep(r) ==
    /\ req[r].route = "logout" /\ req[r].pc = "logout_with_token"
    /\ req'[r].pc = "done"

\* The provider reported 200 to the global sign-out.
Reported200(outcome) == ~outcome.raised /\ outcome.HTTPStatusCode = 200

\* C17: logout_with_token never raises and is True exactly when the global
\* sign-out reports 200; GET /auth/logout makes that one call and answers 200
\* 'Logout successful.' exactly when the provider reported 200, and 400
\* 'Failed to log out. Please try again.' otherwise, a raised exception
\* included.
C17_LogoutFollowsProvider ==
    [][\A r \in Reqs : LogoutStep(r) =>
          /\ Len(req'[r].outbound) = 1
          /\ req'[r].raised = {}
          /\ LET sign_out == req'[r].outbound[1]
             IN  /\ sign_out.call = "global_sign_out"
                 /\ logout_with_token(sign_out.outcome) = Reported200(sign_out.outcome)
                 /\ IF Reported200(sign_out.outcome)
                    THEN req'[r].resp =
                           {Response(200, [message |-> "Logout successful."])}
                    ELSE req'[r].resp =
                           {HTTPException(400,
                               Detail("Failed to log out. Please try again."))}]_vars

\* A logout was answered 400 after the sign-out call raised.
C17_Witness ==
    \E r \in Reqs :
       /\ Answered(r, "logout", 400)
       /\ req[r].outbound = <<[call |-> "global_sign_out",
                               outcome |-> [raised |-> TRUE, HTTPStatusCode |-> 0]]>>


\* The step in which slot r's call of auth_with_code returns.
ExchangeStep(r) ==
    /\ req[r].route = "signin" /\ req[r].pc = "auth_with_code"
    /\ req'[r].pc # "auth_with_code"
    /\ req'[r].raised = {}

\* C18: auth_with_code makes exactly one outbound POST per invocation and
\* returns {token, expires_in} taken from the response exactly when the
\* response's status is 200; for any other status it returns None, and the
\* sign-in is answered 401 without a second POST.
C18_ExchangeIsOnePost ==
    [][\A r \in Reqs : ExchangeStep(r) =>
          /\ Len(req'[r].outbound) = Len(req[r].outbound) + 1
          /\ Len(req'[r].outbound) = 1
          /\ req'[r].outbound[1].call = "requests.post"
          /\ \A response \in req'[r].outbound[1].outcome.response :
               IF response.status_code = 200
               THEN /\ req'[r].token = {[token |-> response.access_token,
                                         expires_in |-> response.expires_in]}
                    /\ req'[r].pc = "user_info_with_token"
               ELSE /\ req'[r].token = {}
                    /\ req'[r].pc = "done"
                    /\ req'[r].calls = <<"auth_with_code">>]_vars

\* One sign-in holds the token of a 200 response, another was answered 401
\* after a single POST that the endpoint answered with another status.
C18_Witness ==
    \E r, s \in Reqs :
       /\ req[r].route = "signin" /\ req[r].token # {}
       /\ \E response \in req[r].outbound[1].outcome.response :
             response.status_code = 200
       /\ Answered(s, "signin", 401)
       /\ Len(req[s].outbound) = 1
       /\ \E response \in req[s].outbound[1].outcome.response :
             response.status_code # 200


\* C19: an exception other than HTTPException raised at any point of a task
\* or auth route handler, the user lookup of POST /tasks and GET /tasks
\* included, is answered 500 with that route's fixed detail message; an
\* HTTPException reaches the client with its own status and detail.
C19_ExceptionsAnswerRoute500 ==
    [][\A r \in Reqs : req[r].pc \notin {"idle", "done"} /\ req'[r].pc = "done" =>
          IF req'[r].raised # {}
          THEN req'[r].resp = {InternalError(req[r].route)}
          ELSE \A x \in req'[r].resp : x.status_code # 500]_vars


\* C20: the Token Verifier returns the claim set exactly when the token's
\* key id matches a cached key, its signature verifies and its temporal
\* claims are valid; otherwise it fails with the error of the first failing
\* check, in the order NoMatchingKey, InvalidSignature, Expired.
C20_VerifierFirstFailingCheck ==
    \A r \in Reqs : req[r].route \in ProtectedRoutes => \A t \in req[r].credentials :
       /\ (req[r].claims = {t.username} /\ req[r].error = {})
             <=> (t.kid /\ t.sig /\ t.fresh)
       /\ ~t.kid => req[r].claims = {} /\ req[r].error = {"NoMatchingKey"}
       /\ t.kid /\ ~t.sig => req[r].claims = {} /\ req[r].error = {"InvalidSignature"}
       /\ t.kid /\ t.sig /\ ~t.fresh => req[r].claims = {} /\ req[r].error = {"Expired"}

\* A token with a matching key id whose signature does not verify and whose
\* temporal claims are invalid was refused for its signature.
C20_Witness ==
    \E r \in Reqs : \E t \in req[r].credentials :
       /\ t.kid /\ ~t.sig /\ ~t.fresh
       /\ req[r].state = "Rejected"
       /\ req[r].error = {"InvalidSignature"}
       /\ \A x \in req[r].resp : x.status_code = 401


\* The step in which the call at `pc` of the sign-in in slot r returns, the
\* database answering.
SigninStep(r, pc) ==
    /\ req[r].route = "signin" /\ req[r].pc = pc
    /\ req'[r].pc # pc
    /\ "OperationalError" \notin req'[r].raised

MatchesUsername(new_user) == \E u \in users : u.username = new_user.username

MatchesEmail(new_user) == \E u \in users : u.email = new_user.email

\* C21: a sign-in looks the identity up by username and, only when that
\* finds nothing, by email; a match of either ends the sign-in with the users
\* table unchanged; create_user adds the row exactly when no row matches the
\* username or the email, and nothing else changes the users table.
C21_SigninCreatesIffNoMatch ==
    [][/\ \A r \in Reqs : \A new_user \in req[r].new_user :
            /\ SigninStep(r, "get_user_by_username") =>
                  /\ users' = users
                  /\ IF MatchesUsername(new_user)
                     THEN /\ req'[r].pc = "done"
                          /\ req'[r].calls[Len(req'[r].calls)] = "get_user_by_username"
                     ELSE req'[r].pc = "get_user_by_email"
            /\ SigninStep(r, "get_user_by_email") =>
                  /\ users' = users
                  /\ IF MatchesEmail(new_user)
                     THEN req'[r].pc = "done"
                     ELSE req'[r].pc = "create_user"
            /\ SigninStep(r, "create_user") =>
                  IF MatchesUsername(new_user) \/ MatchesEmail(new_user)
                  THEN users' = users
                  ELSE /\ users' = users \cup {UserModel(new_user)}
                       /\ users' # users
       /\ users' # users => \E r \in Reqs : SigninStep(r, "create_user")]_vars

\* One sign-in created its row; a later sign-in of an identity sharing the
\* email ended after the email lookup, and the table still holds that one
\* row.
C21_Witness ==
    /\ Cardinality(users) = 1
    /\ \E r, s \in Reqs :
          /\ Answered(r, "signin", 200)
          /\ req[r].calls = SigninOrder
          /\ Answered(s, "signin", 200)
          /\ req[s].calls = SubSeq(SigninOrder, 1, 4)
          /\ \A i \in SignedIn(r), j \in SignedIn(s) :
                i.email = j.email /\ i.username # j.username


\* C22: when two sign-ins of the same brand-new identity both finish their
\* lookups before either creates the row, the second create is rejected by
\* the uniqueness constraint, the rejected request answers 500 and the other
\* 200, and one row is stored.
C22_SigninRaceLoserIs500 ==
    [][\A r, s \in Reqs : \A new_user \in req[r].new_user :
          ( /\ r # s
            /\ req[r].route = "signin" /\ req[r].pc = "create_user"
            /\ req[s].route = "signin" /\ req[s].pc = "done"
            /\ req[s].calls = SigninOrder /\ req[s].raised = {}
            /\ SignedIn(r) = SignedIn(s)
            /\ SigninStep(r, "create_user") ) =>
               /\ req[s].resp = {LoginSuccessful(s)}
               /\ req'[r].raised = {"IntegrityError"}
               /\ req'[r].resp = {InternalError("signin")}
               /\ users' = users
               /\ Cardinality({u \in users : u.id = new_user.id}) = 1]_vars

\* Both sign-ins of one identity reached create_user; one answered 200 and
\* the other 500.
C22_Witness ==
    \E r, s \in Reqs :
       /\ r # s /\ SignedIn(r) = SignedIn(s)
       /\ Answered(r, "signin", 500) /\ req[r].calls = SigninOrder
       /\ req[r].raised = {"IntegrityError"}
       /\ Answered(s, "signin", 200) /\ req[s].calls = SigninOrder


\* The step in which slot r's delete_task_by_id call returns.
DeleteStep(r) ==
    /\ req[r].route = "delete_task_by_id_route" /\ req[r].pc = "delete_task_by_id"
    /\ req'[r].pc = "done"
    /\ "OperationalError" \notin req'[r].raised

\* C23: what PUT /tasks/{id} and DELETE /tasks/{id} answer and store is
\* determined by the store and the request alone, whoever the verified actor
\* is: the existence check passes for any actor, the delete removes the row
\* and answers 204, the update writes the payload and answers 200 with the
\* row.
C23_UpdateDeleteIgnoreActor ==
    [][\A r \in Reqs : \A task_id \in req[r].task_id :
          /\ \A route \in {"delete_task_by_id_route", "update_task_route"} :
                LookupStep(r, route) /\ ~Unknown(task_id) =>
                   req'[r].pc # "done" /\ tasks' = tasks
          /\ DeleteStep(r) =>
                /\ req'[r].resp = {NoContent}
                /\ tasks' = {t \in tasks : t.id # task_id}
          /\ UpdateStep(r) => \A b \in req[r].payload : \E old \in tasks :
                LET new == [old EXCEPT !.title = b.title,
                                       !.description = b.description,
                                       !.status = b.status,
                                       !.priority = b.priority]
                IN  /\ old.id = task_id
                    /\ req'[r].resp = {Response(200, TaskResponse(new))}
                    /\ tasks' = (tasks \ {old}) \cup {new}]_vars

\* An actor who does not own the task has updated it.
C23_Witness ==
    \E r \in Reqs : \E task_id \in req[r].task_id :
       /\ Answered(r, "update_task_route", 200)
       /\ req[r].state = "Verified"
       /\ \E t \in tasks : t.id = task_id /\ t.title = "title-2"
       /\ ~Owns(r, task_id)


\* C24: a task row created through POST /tasks has status 'todo', the next
\* generated id, and the id of the user row resolved from the verified
\* username as user_id, whatever the payload holds.
C24_CreatedTaskIsTodoAndOwned ==
    [][\A r \in Reqs : CreateStep(r) /\ tasks' # tasks =>
          \E t \in tasks' \ tasks :
             /\ tasks' = tasks \cup {t}
             /\ t.status = "todo"
             /\ t.id = nextId
             /\ \E u \in users : u.username \in req[r].claims /\ t.user_id = u.id
             /\ \A b \in req[r].payload :
                   DOMAIN b = {"title", "description", "priority", "deadline"}]_vars

\* Two tasks created by different actors are stored, each 'todo' and filed
\* under its creator.
C24_Witness ==
    /\ Cardinality({t.user_id : t \in tasks}) = 2
    /\ \A t \in tasks : t.status = "todo"
    /\ \E r \in Reqs : Answered(r, "create_new_task", 201) /\ Owns(r, nextId - 1)


\* C25: a stored user row is never modified and never removed: every step
\* keeps every row of the users table as it is.
C25_UserRowsOnlyGrow ==
    [][\A u \in users : u \in users']_vars

\* Two users are stored, a task is stored, and a sign-in that matched a
\* stored row by username has just ended.
C25_Witness ==
    /\ Cardinality(users) = 2
    /\ tasks # {}
    /\ \E r \in Reqs :
          /\ Answered(r, "signin", 200)
          /\ req[r].calls = SubSeq(SigninOrder, 1, 3)
          /\ \A i \in SignedIn(r) : \A u \in users : u.id # i.sub


\* C26: a PUT /tasks/{id} that interleaves with a DELETE of the same id is
\* answered 200 or 404, never 500: update_task is not applied to a task
\* removed between the route's existence check and the update.
C26_UpdateNever500 ==
    [][\A r \in Reqs : UpdateStep(r) =>
          /\ \E x \in req'[r].resp : x.status_code \in {200, 404}
          /\ \A task_id \in req[r].task_id : ~Unknown(task_id)]_vars


\* C27: of two concurrent DELETE /tasks/{id} of one existing task exactly
\* one is answered 204 and the other 404; a 204 is answered only by the
\* request that removed the row.
C27_OneDeleteIs204 ==
    [][\A r \in Reqs : \A task_id \in req[r].task_id :
          DeleteStep(r) /\ req'[r].resp = {NoContent} =>
             /\ \E t \in tasks : t.id = task_id /\ t \notin tasks'
             /\ \A s \in Reqs \ {r} :
                   ~(Answered(s, "delete_task_by_id_route", 204)
                     /\ req[s].task_id = {task_id})]_vars


\* C28: after a sign-in answered 200 for an identity with username u a user
\* row with username u exists, so GET /auth/me, GET /tasks and POST /tasks
\* with that verified username are not answered 404 'User not found', also
\* when an identity with the same email and another username signed in
\* earlier.
C28_SignedInUsernameHasRow ==
    \A r \in Reqs : Answered(r, "signin", 200) =>
        \A i \in SignedIn(r) : \E u \in users : u.username = i.username


\* C29: an update whose payload has no deadline leaves the stored deadline
\* as it is; a stored deadline changes only in a successful update that
\* carries a deadline, and is never cleared.
C29_DeadlineKeptWithoutDeadline ==
    [][\A old \in tasks, new \in tasks' : old.id = new.id =>
          /\ \A r \in Reqs :
                ( /\ UpdateStep(r) /\ req[r].task_id = {old.id}
                  /\ \A b \in req[r].payload : b.deadline = {} ) =>
                     new.deadline = old.deadline
          /\ new.deadline # old.deadline =>
                \E r \in Reqs : /\ UpdateStep(r) /\ req'[r].raised = {}
                                /\ req[r].task_id = {old.id}
                                /\ \E b \in req[r].payload : b.deadline # {}
          /\ old.deadline # {} => new.deadline # {}]_vars

\* A task with a deadline has been updated by a payload without one and
\* still has its deadline.
C29_Witness ==
    \E r \in Reqs : \E t \in tasks :
       /\ Answered(r, "update_task_route", 200)
       /\ req[r].task_id = {t.id}
       /\ \A b \in req[r].payload : b.deadline = {} /\ b.title = t.title
       /\ t.deadline # {}


\* C30: when update_task fails its deadline check, the title, description,
\* status and priority of the failed payload are never persisted: a later
\* call that commits on the same session leaves the task with the values it
\* had before the failed update.
C30_FailedUpdatePersistsNothing ==
    [][\A r \in Reqs : \A p \in req[r].pending : \A old \in tasks :
          ( /\ old.id = p.id
            /\ p.raised = "ValueError"
            /\ req'[r].raised = {}
            /\ ~(req'[r].calls = <<"update_task">> /\ req'[r].task_id = {p.id}) ) =>
               \E new \in tasks' :
                  /\ new.id = old.id
                  /\ new.title = old.title /\ new.description = old.description
                  /\ new.status = old.status /\ new.priority = old.priority]_vars

=============================================================================
